---- MODULE Spec2Model ----
(***************************************************************************)
(* Calendar weather bot (src/index.js, the deployed second half of the     *)
(* file, lines 213-460): the sync cycle updateCalendarEvents, the weather  *)
(* lookup getWeatherInfo, the title clean-up and composition, and the two  *)
(* timers installed by startApplication.                                   *)
(*                                                                         *)
(* Strings are sequences of characters.  An ASCII character is the         *)
(* one-letter string; a non-ASCII character is named by its code point     *)
(* ("U+2600") and CodePoint gives its number.  Times are whole hours.      *)
(***************************************************************************)
EXTENDS Integers, Sequences, FiniteSets, TLC

VARIABLES
    lastSyncToken,  \* the process-wide sync token (index.js line 228)
    now,            \* the wall clock, in hours
    started,        \* startApplication has run and both timers are installed
    cycle,          \* the activations of updateCalendarEvents in flight
    step,           \* the last handler run: what woke it, and the calls it made
    summary,        \* title codec run: event.summary
    weatherDesc,    \* title codec run: the descriptor from getWeatherInfo
    cleanTitle,     \* title codec run: the stripped title
    strippedTwice,  \* title codec run: the stripped title, stripped again
    newTitle,       \* title codec run: the composed title
    restripped,     \* title codec run: the composed title, stripped again
    codecPc,        \* title codec run: the step reached
    lookup          \* weather lookup run: one call of getWeatherInfo

vars == <<lastSyncToken, now, started, cycle, step,
          summary, weatherDesc, cleanTitle, strippedTwice, newTitle, restripped,
          codecPc, lookup>>

syncVars == <<lastSyncToken, now, started, cycle, step>>
codecVars ==
    <<summary, weatherDesc, cleanTitle, strippedTwice, newTitle, restripped, codecPc>>
lookupVars == <<lookup>>

----------------------------------------------------------------------------
(* Bounds of the model *)

\* longest title drawn as input of the title codec run
MaxTitleLen == 3
\* events in one events.list reply
MaxEvents == 2
\* recursive calls of one cycle whose cause is remembered
MaxHist == 1
\* hours the clock may advance
MaxNow == 1
\* activations of updateCalendarEvents in flight at once
MaxCycles == 2
\* days after day 0 of the latest event time a lookup is made for
MaxDaysAhead == 20

----------------------------------------------------------------------------
(* Characters and strings *)

Null == "null"
Undefined == "undefined"

\* code points of the non-ASCII characters the model uses
CodePoint ==
    [c \in {"U+00A0", "U+00B0", "U+2600", "U+FE0F", "U+1F327"} |->
        CASE c = "U+00A0" -> 160
          [] c = "U+00B0" -> 176
          [] c = "U+2600" -> 9728
          [] c = "U+FE0F" -> 65039
          [] c = "U+1F327" -> 127783]

\* String.prototype.trim's white space, among the characters of the model
IsWhiteSpace(ch) == ch \in {" ", "\t", "\n", "U+00A0"}

\* the class [\u{1F300}-\u{1F9FF}] of line 388
IsEmoji(ch) ==
    /\ ch \in DOMAIN CodePoint
    /\ CodePoint[ch] >= 127744
    /\ CodePoint[ch] <= 129535

UpperToLower ==
    [c \in {"S", "C", "P", "R"} |->
        CASE c = "S" -> "s" [] c = "C" -> "c" [] c = "P" -> "p" [] c = "R" -> "r"]

\* String.prototype.toLowerCase
ToLowerCase(s) ==
    [i \in 1..Len(s) |-> IF s[i] \in DOMAIN UpperToLower THEN UpperToLower[s[i]] ELSE s[i]]

RECURSIVE TrimStart(_)
TrimStart(s) ==
    IF s # <<>> /\ IsWhiteSpace(Head(s)) THEN TrimStart(Tail(s)) ELSE s

RECURSIVE TrimEnd(_)
TrimEnd(s) ==
    IF s # <<>> /\ IsWhiteSpace(s[Len(s)])
    THEN TrimEnd(SubSeq(s, 1, Len(s) - 1))
    ELSE s

\* a bug: trims the front only
TrimFrontOnly(s) == TrimStart(s)

\* String.prototype.trim
Trim(s) == TrimEnd(TrimStart(s))

\* the position of the first ")" at or after i, or 0 when there is none
RECURSIVE NextClose(_, _)
NextClose(s, i) ==
    IF i > Len(s) THEN 0
    ELSE IF s[i] = ")" THEN i
    ELSE NextClose(s, i + 1)

\* s.replace(/\([^)]*\)/g, ''), scanning from position i: a "(" with a ")"
\* after it is removed up to the first such ")", any other character is kept
RECURSIVE RemoveParensFrom(_, _)
RemoveParensFrom(s, i) ==
    IF i > Len(s) THEN <<>>
    ELSE IF s[i] = "(" /\ NextClose(s, i + 1) # 0
         THEN RemoveParensFrom(s, NextClose(s, i + 1) + 1)
         ELSE <<s[i]>> \o RemoveParensFrom(s, i + 1)

\* a bug: the pattern of line 387 matches nothing
KeepParens(s) == s

RemoveParens(s) == RemoveParensFrom(s, 1)

\* s.replace(/[\u{1F300}-\u{1F9FF}]/gu, '')
RemoveEmoji(s) == SelectSeq(s, LAMBDA ch : ~IsEmoji(ch))

\* a bug: the trim of line 388 is missing
StripUntrimmed(s) == RemoveEmoji(Trim(RemoveParens(s)))

\* lines 387-388: the title without parenthesized parts and emoji
Strip(s) == Trim(RemoveEmoji(Trim(RemoveParens(s))))

\* line 390: `${cleanTitle} ${weatherDesc}`
Compose(clean, desc) == clean \o <<" ">> \o desc

----------------------------------------------------------------------------
(* Weather descriptors (getWeatherInfo, lines 292-328) *)

HoursPerDay == 24
ForecastHorizonDays == 14
WindowDays == 7

\* the decimal digits of n >= 0
RECURSIVE Digits(_)
Digits(n) ==
    IF n < 10
    THEN <<CASE n = 0 -> "0" [] n = 1 -> "1" [] n = 2 -> "2" [] n = 3 -> "3"
             [] n = 4 -> "4" [] n = 5 -> "5" [] n = 6 -> "6" [] n = 7 -> "7"
             [] n = 8 -> "8" [] n = 9 -> "9">>
    ELSE Digits(n \div 10) \o Digits(n % 10)

\* a number in a template literal
NumberToString(n) == IF n < 0 THEN <<"-">> \o Digits(-n) ELSE Digits(n)

\* Math.round of a temperature given in tenths of a degree: halves round up
MathRound(tenths) == (tenths + 5) \div 10

\* line 323: `(${condition}, ${Math.round(tempC)}°C)`
FormatDescriptor(text, tenths) ==
    <<"(">> \o ToLowerCase(text) \o <<",", " ">>
        \o NumberToString(MathRound(tenths)) \o <<"U+00B0", "C", ")">>

\* lines 301 and 314: "(forecast unavailable)"
ForecastUnavailable ==
    <<"(", "f", "o", "r", "e", "c", "a", "s", "t", " ",
      "u", "n", "a", "v", "a", "i", "l", "a", "b", "l", "e", ")">>

\* line 326: "(weather unavailable)"
WeatherUnavailable ==
    <<"(", "w", "e", "a", "t", "h", "e", "r", " ",
      "u", "n", "a", "v", "a", "i", "l", "a", "b", "l", "e", ")">>

\* Math.ceil(x / d) for d > 0
CeilDiv(x, d) == -((-x) \div d)

\* a bug: Math.floor in the place of Math.ceil
DaysDifferenceFloor(eventDate, nowv) == (eventDate - nowv) \div HoursPerDay

\* line 297: Math.ceil((eventDate - now) / (1000 * 60 * 60 * 24))
DaysDifference(eventDate, nowv) == CeilDiv(eventDate - nowv, HoursPerDay)

\* the calendar date and the hour of a time
DateOf(t) == t \div HoursPerDay
HourOf(t) == t % HoursPerDay

\* Array.prototype.find of line 309: the first day of the forecast with the
\* calendar date of the event, as a sequence of at most one element
FindDay(forecastday, date) ==
    LET matching == SelectSeq(forecastday, LAMBDA day : day.date = date)
    IN  IF matching = <<>> THEN <<>> ELSE <<matching[1]>>

\* Array.prototype.find of line 319: the first hourly slot with the hour of
\* the event, as a sequence of at most one element
FindHour(hours, hour) ==
    LET matching == SelectSeq(hours, LAMBDA h : h.hour = hour)
    IN  IF matching = <<>> THEN <<>> ELSE <<matching[1]>>

\* a bug: the check of the horizon is missing
NeverBeyondHorizon(eventDate, nowv) == FALSE

\* lines 300-302: no request is made beyond the forecast horizon
BeyondHorizon(eventDate, nowv) ==
    DaysDifference(eventDate, nowv) > ForecastHorizonDays

\* lines 306-327: the descriptor for the reply `res` of the forecast request.
\* A reply is [kind, forecastday]: kind "error" is a rejected request, kind
\* "malformed" a body without forecast.forecastday (the property access
\* throws); both end in the catch block.  A day is [date, hour], an hourly
\* slot [hour, text, temp_c], temp_c in tenths of a degree.
DescriptorFromReply(eventDate, res) ==
    IF res.kind # "ok" THEN WeatherUnavailable
    ELSE LET forecast == FindDay(res.forecastday, DateOf(eventDate))
         IN  IF forecast = <<>> THEN ForecastUnavailable
             ELSE LET hours == forecast[1].hour
                      found == FindHour(hours, HourOf(eventDate))
                  IN  IF found # <<>>
                      THEN FormatDescriptor(found[1].text, found[1].temp_c)
                      ELSE IF hours = <<>> THEN WeatherUnavailable
                      ELSE FormatDescriptor(hours[1].text, hours[1].temp_c)

\* getWeatherInfo as a whole
GetWeatherInfo(eventDate, nowv, res) ==
    IF BeyondHorizon(eventDate, nowv) THEN ForecastUnavailable
    ELSE DescriptorFromReply(eventDate, res)

Sunny == <<"S", "u", "n", "n", "y">>
Cloudy == <<"C", "l", "o", "u", "d", "y">>

----------------------------------------------------------------------------
(* The title codec run: one title and one descriptor through lines 387-390, *)
(* and the written title through line 387-388 again, as the next cycle that *)
(* fetches the event does.                                                  *)

TitleChars == {"a", " ", "(", ")", "U+1F327", "U+2600"}

RECURSIVE StringsUpTo(_, _)
StringsUpTo(chars, n) ==
    IF n = 0 THEN {<<>>}
    ELSE LET shorter == StringsUpTo(chars, n - 1)
         IN  shorter \cup {Append(s, ch) : s \in shorter, ch \in chars}

CodecTitles == StringsUpTo(TitleChars, MaxTitleLen)

\* the title of an event that already carries a descriptor and a sun sign
Standup == <<"S", "t", "a", "n", "d", "u", "p">>
StandupTitle ==
    Standup \o <<" ">> \o FormatDescriptor(Sunny, 180) \o <<" ", "U+2600", "U+FE0F">>

CodecSummaries == CodecTitles \cup {StandupTitle}

CodecDescriptors ==
    { FormatDescriptor(Sunny, 176), FormatDescriptor(Cloudy, -25),
      FormatDescriptor(Cloudy, 200), ForecastUnavailable, WeatherUnavailable }

CodecIdle ==
    /\ summary = <<>>
    /\ weatherDesc = <<>>
    /\ cleanTitle = <<>>
    /\ strippedTwice = <<>>
    /\ newTitle = <<>>
    /\ restripped = <<>>
    /\ codecPc = "off"

InitCodecRun ==
    /\ summary \in CodecSummaries
    /\ weatherDesc \in CodecDescriptors
    /\ cleanTitle = <<>>
    /\ strippedTwice = <<>>
    /\ newTitle = <<>>
    /\ restripped = <<>>
    /\ codecPc = "fetched"

\* lines 387-388
CleanStep ==
    /\ codecPc = "fetched"
    /\ cleanTitle' = Strip(summary)
    /\ codecPc' = "cleaned"
    /\ UNCHANGED <<summary, weatherDesc, strippedTwice, newTitle, restripped>>

\* lines 387-388 on a title that is already clean
StripAgainStep ==
    /\ codecPc = "cleaned"
    /\ strippedTwice' = Strip(cleanTitle)
    /\ codecPc' = "cleanedTwice"
    /\ UNCHANGED <<summary, weatherDesc, cleanTitle, newTitle, restripped>>

\* line 390
ComposeStep ==
    /\ codecPc \in {"cleaned", "cleanedTwice"}
    /\ newTitle' = Compose(cleanTitle, weatherDesc)
    /\ codecPc' = "composed"
    /\ UNCHANGED <<summary, weatherDesc, cleanTitle, strippedTwice, restripped>>

\* lines 387-388 on the title that was written
RestripStep ==
    /\ codecPc = "composed"
    /\ restripped' = Strip(newTitle)
    /\ codecPc' = "restripped"
    /\ UNCHANGED <<summary, weatherDesc, cleanTitle, strippedTwice, newTitle>>

----------------------------------------------------------------------------
(* The weather lookup run: one call of getWeatherInfo (lines 292-328) for an *)
(* event time, the reply of the forecast request, and the descriptor handed  *)
(* to the title codec run (line 384).                                        *)

NoReply == [kind |-> "none", forecastday |-> <<>>]

LookupIdle ==
    [ pc |-> "off",        \* off, called, requested, returned, used
      eventDate |-> 0,     \* the argument
      days |-> 0,          \* the days parameter of the request (line 305)
      res |-> NoReply,     \* the reply of the request (line 306)
      result |-> <<>> ]    \* the string returned

Slot(hour, text, tenths) == [hour |-> hour, text |-> text, temp_c |-> tenths]
Day(date, hours) == [date |-> date, hour |-> hours]

DayZero == Day(0, <<Slot(0, Sunny, 176), Slot(5, Cloudy, 204), Slot(5, Sunny, 65)>>)
DayOne == Day(1, <<Slot(5, Cloudy, -25)>>)
DayOneAgain == Day(1, <<Slot(0, Sunny, 180), Slot(1, Cloudy, 200)>>)
DayFourteen == Day(ForecastHorizonDays, <<Slot(1, Cloudy, 95), Slot(0, Sunny, 14)>>)

LookupReplies ==
    { [kind |-> "error", forecastday |-> <<>>],
      [kind |-> "malformed", forecastday |-> <<>>],
      [kind |-> "ok", forecastday |-> <<>>],
      [kind |-> "ok", forecastday |-> <<DayZero>>],
      [kind |-> "ok", forecastday |-> <<DayZero, DayOne, DayOneAgain>>],
      [kind |-> "ok", forecastday |-> <<DayOneAgain, DayOne, DayFourteen>>] }

LookupHours == {0, 1, 5}
LookupTimes == {d * HoursPerDay + h : d \in 0..MaxDaysAhead, h \in LookupHours}
LookupNows == {0, 1}
LookupSummaries == {Standup, StandupTitle}

InitLookupRun ==
    /\ lookup \in {[LookupIdle EXCEPT !.pc = "called", !.eventDate = e] : e \in LookupTimes}
    /\ summary \in LookupSummaries
    /\ weatherDesc = <<>>
    /\ cleanTitle = <<>>
    /\ strippedTwice = <<>>
    /\ newTitle = <<>>
    /\ restripped = <<>>
    /\ codecPc = "off"

\* lines 293-306: no request beyond the horizon, else the forecast request
LookupStart ==
    /\ lookup.pc = "called"
    /\ lookup' =
        IF BeyondHorizon(lookup.eventDate, now)
        THEN [lookup EXCEPT !.pc = "returned", !.result = ForecastUnavailable]
        ELSE [lookup EXCEPT !.pc = "requested",
                            !.days = DaysDifference(lookup.eventDate, now) + 1]
    /\ UNCHANGED codecVars

\* lines 306-327: the request settles with `res`
LookupSettles(res) ==
    /\ lookup.pc = "requested"
    /\ lookup' = [lookup EXCEPT !.pc = "returned", !.res = res,
                                !.result = DescriptorFromReply(lookup.eventDate, res)]
    /\ UNCHANGED codecVars

\* line 384: the cycle takes the descriptor
LookupUsed ==
    /\ lookup.pc = "returned"
    /\ lookup' = [lookup EXCEPT !.pc = "used"]
    /\ weatherDesc' = lookup.result
    /\ codecPc' = "fetched"
    /\ UNCHANGED <<summary, cleanTitle, strippedTwice, newTitle, restripped>>

----------------------------------------------------------------------------
(* The sync cycle: updateCalendarEvents, lines 335-418 *)

Cycles == 1..MaxCycles

\* a sync token is used when it is truthy (line 354)
Truthy(token) == token \notin {Null, Undefined}

\* the default parameter `syncToken = null` of line 335
ArgOrDefault(token) == IF token = Undefined THEN Null ELSE token

\* the first version of the function (line 106-117): the token is added and
\* the time bounds stay
ListParamsKeepingBounds(syncToken, nowv) ==
    [ keys |-> IF Truthy(syncToken) THEN {"syncToken", "timeMin", "timeMax"}
               ELSE {"timeMin", "timeMax"},
      syncToken |-> syncToken,
      timeMin |-> nowv,
      timeMax |-> nowv + WindowDays * HoursPerDay ]

\* lines 340-359: the parameters of events.list.  `keys` are the properties
\* the object has; a property that is not a key is not sent.
ListParams(syncToken, nowv) ==
    [ keys |-> IF Truthy(syncToken) THEN {"syncToken"} ELSE {"timeMin", "timeMax"},
      syncToken |-> syncToken,
      timeMin |-> nowv,
      timeMax |-> nowv + WindowDays * HoursPerDay ]

\* a bug: the page token (absent from a last page) is saved instead
SavedPageToken(res) == Undefined

\* line 363: lastSyncToken = res.data.nextSyncToken
SavedToken(res) == res.nextSyncToken

\* a bug: every event is patched
AlwaysPatch(title, current) == TRUE

\* line 393: newTitle !== event.summary
NeedsPatch(title, current) == title # current

\* the calls and log lines a handler makes, in order
ListCall(c, params) == [op |-> "list", c |-> c, params |-> params]
WeatherCall(c, i, days) == [op |-> "weather", c |-> c, idx |-> i, days |-> days]
PatchCall(c, i, id, title) ==
    [op |-> "patch", c |-> c, idx |-> i, eventId |-> id, summary |-> title]
Skipped(c, i) == [op |-> "skip", c |-> c, idx |-> i]
Composed(c, i, current, desc, title) ==
    [op |-> "composed", c |-> c, idx |-> i, current |-> current, desc |-> desc,
     summary |-> title]
Log(c, line) == [op |-> "log", c |-> c, line |-> line]

IdleCycle ==
    [ pc |-> "idle",         \* idle, awaitList, awaitWeather, awaitPatch
      hist |-> <<>>,          \* what threw 410 in the first activations of the cycle
      tokenBefore |-> Null,   \* lastSyncToken when events.list was called
      overtaken |-> FALSE,    \* the slow timer fired while this incremental fetch waits
      got |-> Null,           \* res.data.nextSyncToken of the activation
      timeMax |-> 0,          \* line 341-342
      events |-> <<>>,        \* res.data.items
      idx |-> 0,              \* the position of the for loop
      patch |-> <<>> ]        \* the summary of the patch in flight

\* lines 336-362: the activation up to its await of events.list
Fetching(hist, token, nowv) ==
    [ IdleCycle EXCEPT !.pc = "awaitList",
                       !.hist = hist,
                       !.tokenBefore = token,
                       !.timeMax = nowv + WindowDays * HoursPerDay ]

\* lines 375-405 from event i on, up to the next await or the end of the loop:
\* the new pc, idx and patch of the cycle, and the calls made on the way
RECURSIVE ProcessFrom(_, _, _, _, _)
RECURSIVE AfterWeather(_, _, _, _, _, _)
ProcessFrom(c, events, timeMax, nowv, i) ==
    IF i > Len(events)
    THEN [pc |-> "idle", idx |-> i, patch |-> <<>>,
          out |-> <<Log(c, "Update completed")>>]
    ELSE IF events[i].start > timeMax
    THEN LET rest == ProcessFrom(c, events, timeMax, nowv, i + 1)
         IN  [rest EXCEPT !.out = <<Skipped(c, i)>> \o @]
    ELSE IF BeyondHorizon(events[i].start, nowv)
    THEN AfterWeather(c, events, timeMax, nowv, i, ForecastUnavailable)
    ELSE [pc |-> "awaitWeather", idx |-> i, patch |-> <<>>,
          out |-> <<WeatherCall(c, i, DaysDifference(events[i].start, nowv) + 1)>>]

\* lines 386-404 for event i with its descriptor
AfterWeather(c, events, timeMax, nowv, i, desc) ==
    LET title == Compose(Strip(events[i].summary), desc)
    IN  IF NeedsPatch(title, events[i].summary)
        THEN [pc |-> "awaitPatch", idx |-> i, patch |-> title,
              out |-> <<Composed(c, i, events[i].summary, desc, title),
                        PatchCall(c, i, events[i].id, title)>>]
        ELSE LET rest == ProcessFrom(c, events, timeMax, nowv, i + 1)
             IN  [rest EXCEPT
                    !.out = <<Composed(c, i, events[i].summary, desc, title)>> \o @]

\* the cycle after a run of the loop
Continued(cy, r) ==
    IF r.pc = "idle" THEN IdleCycle
    ELSE [cy EXCEPT !.pc = r.pc, !.idx = r.idx, !.patch = r.patch,
                    !.tokenBefore = Null, !.overtaken = FALSE]

----------------------------------------------------------------------------
(* What the collaborators may answer *)

Bare == <<"a">>
Decorated == Compose(Bare, FormatDescriptor(Sunny, 176))

\* the events of the calendar: one inside the window of every cycle, with a
\* title that already carries a descriptor, and one an hour after the window
\* of a cycle that starts at hour 0
CalendarEvents ==
    { [id |-> "e1", summary |-> Decorated, start |-> HoursPerDay],
      [id |-> "e2", summary |-> Bare, start |-> WindowDays * HoursPerDay + 1] }

\* the sequences of at most n different elements of S
RECURSIVE DistinctSeqs(_, _)
DistinctSeqs(S, n) ==
    IF n = 0 THEN {<<>>}
    ELSE LET shorter == DistinctSeqs(S, n - 1)
         IN  shorter \cup
             UNION { {Append(s, e) : e \in S \ {s[i] : i \in 1..Len(s)}} :
                     s \in shorter }

EventLists == DistinctSeqs(CalendarEvents, MaxEvents)

NextTokens == {"t1", "t2", Undefined}

ListReplies == [items : EventLists, nextSyncToken : NextTokens]

ErrorCodes == {410, 500}

\* a forecast of one day, date 1, with one hourly slot
ForecastOf(text, tenths) ==
    [ kind |-> "ok",
      forecastday |->
        << [date |-> 1,
            hour |-> <<[hour |-> 0, text |-> text, temp_c |-> tenths]>>] >> ]

WeatherReplies ==
    { [kind |-> "error", forecastday |-> <<>>],
      [kind |-> "malformed", forecastday |-> <<>>],
      ForecastOf(Sunny, 176),
      ForecastOf(Cloudy, 204) }

----------------------------------------------------------------------------
(* The handlers *)

UpdateIntervalHours == 1

Init ==
    /\ lastSyncToken = Null
    /\ now = 0
    /\ started = FALSE
    /\ cycle = [c \in Cycles |-> IdleCycle]
    /\ step = [c |-> 0, on |-> [kind |-> "init"], out |-> <<>>]
    /\ CodecIdle
    /\ lookup = LookupIdle

\* the activation slot a new cycle takes
FreeSlot(c) ==
    /\ cycle[c].pc = "idle"
    /\ \A d \in 1..(c - 1) : cycle[d].pc # "idle"

\* a call of updateCalendarEvents(auth, syncToken) from outside a cycle
CallUpdate(c, token, on, before) ==
    /\ cycle' = [cycle EXCEPT ![c] = Fetching(<<>>, lastSyncToken', now)]
    /\ step' = [c |-> c, on |-> on,
                out |-> before \o <<ListCall(c, ListParams(ArgOrDefault(token), now))>>]

\* lines 436-455: startApplication runs the initial update and installs the
\* two timers
StartApplication ==
    /\ ~started
    /\ started' = TRUE
    /\ lastSyncToken' = lastSyncToken
    /\ CallUpdate(1, Undefined, [kind |-> "start"],
                  <<Log(1, "Initial update starting...")>>)
    /\ UNCHANGED <<now, codecVars, lookupVars>>

\* the activations in flight when the slow timer fires: an incremental fetch
\* that has not resolved is marked as overtaken
Overtaken(cy) ==
    IF cy.pc = "awaitList" /\ Truthy(cy.tokenBefore)
    THEN [cy EXCEPT !.overtaken = TRUE]
    ELSE cy

\* a bug: the slow timer leaves the token as it is
SlowTimerKeepingToken ==
    /\ started
    /\ now >= UpdateIntervalHours
    /\ \E c \in Cycles :
        /\ FreeSlot(c)
        /\ lastSyncToken' = lastSyncToken
        /\ cycle' = [d \in Cycles |->
                        IF d = c THEN Fetching(<<>>, lastSyncToken', now)
                        ELSE Overtaken(cycle[d])]
        /\ step' = [c |-> c, on |-> [kind |-> "slowTimer"],
                    out |-> << Log(c, "Starting scheduled hourly update..."),
                               ListCall(c, ListParams(ArgOrDefault(Undefined), now)) >>]
    /\ UNCHANGED <<now, started, codecVars, lookupVars>>

\* lines 444-448: the slow timer clears the token and starts a cycle
SlowTimer ==
    /\ started
    /\ now >= UpdateIntervalHours
    /\ \E c \in Cycles :
        /\ FreeSlot(c)
        /\ lastSyncToken' = Null
        /\ cycle' = [d \in Cycles |->
                        IF d = c THEN Fetching(<<>>, lastSyncToken', now)
                        ELSE Overtaken(cycle[d])]
        /\ step' = [c |-> c, on |-> [kind |-> "slowTimer"],
                    out |-> << Log(c, "Starting scheduled hourly update..."),
                               ListCall(c, ListParams(ArgOrDefault(Undefined), now)) >>]
    /\ UNCHANGED <<now, started, codecVars, lookupVars>>

\* lines 451-454 and 424-430: the fast timer starts a cycle with the token
\* as it is now
FastTimer ==
    /\ started
    /\ \E c \in Cycles :
        /\ FreeSlot(c)
        /\ lastSyncToken' = lastSyncToken
        /\ CallUpdate(c, lastSyncToken, [kind |-> "fastTimer"],
                      <<Log(c, "Checking for calendar changes...")>>)
    /\ UNCHANGED <<now, started, codecVars, lookupVars>>

\* time passes
Tick ==
    /\ started
    /\ now < MaxNow
    /\ now' = now + 1
    /\ step' = [c |-> 0, on |-> [kind |-> "tick"], out |-> <<>>]
    /\ UNCHANGED <<lastSyncToken, started, cycle, codecVars, lookupVars>>

\* the causes of the recursive calls of a cycle, the first MaxHist of them
Remembered(hist, cause) ==
    IF Len(hist) < MaxHist THEN Append(hist, cause) ELSE hist

\* the exception as the catch block of line 408 finds it: what threw, and
\* where the activation was
Caught(c, code, cause) ==
    [ op |-> "caught", c |-> c, code |-> code, cause |-> cause,
      hist |-> cycle[c].hist, tokenBefore |-> cycle[c].tokenBefore,
      got |-> cycle[c].got,
      events |-> cycle[c].events, idx |-> cycle[c].idx,
      timeMax |-> cycle[c].timeMax ]

\* a bug: an error other than 410 is thrown on, out of the activation
CatchBlockRethrowing(c, code, cause, on) ==
    IF code = 410
    THEN /\ lastSyncToken' = Null
         /\ cycle' = [cycle EXCEPT
                        ![c] = Fetching(Remembered(cycle[c].hist, cause), Null, now)]
         /\ step' = [c |-> c, on |-> on,
                     out |-> << Caught(c, code, cause),
                                Log(c, "Sync token expired, performing full sync..."),
                                ListCall(c, ListParams(ArgOrDefault(Undefined), now)) >>]
    ELSE /\ lastSyncToken' = lastSyncToken
         /\ cycle' = [cycle EXCEPT ![c] = IdleCycle]
         /\ step' = [c |-> c, on |-> on, out |-> <<Caught(c, code, cause)>>]

\* lines 408-417: the catch block.  Status 410 clears the token and calls
\* updateCalendarEvents(auth) again; any other error is logged.
CatchBlock(c, code, cause, on) ==
    IF code = 410
    THEN /\ lastSyncToken' = Null
         /\ cycle' = [cycle EXCEPT
                        ![c] = Fetching(Remembered(cycle[c].hist, cause), Null, now)]
         /\ step' = [c |-> c, on |-> on,
                     out |-> << Caught(c, code, cause),
                                Log(c, "Sync token expired, performing full sync..."),
                                ListCall(c, ListParams(ArgOrDefault(Undefined), now)) >>]
    ELSE /\ lastSyncToken' = lastSyncToken
         /\ cycle' = [cycle EXCEPT ![c] = IdleCycle]
         /\ step' = [c |-> c, on |-> on,
                     out |-> << Caught(c, code, cause),
                                Log(c, "Error updating calendar events:") >>]

\* lines 362-405: events.list resolves
ListReturns(c, res) ==
    /\ cycle[c].pc = "awaitList"
    /\ lastSyncToken' = SavedToken(res)
    /\ LET on == [kind |-> "listOk", res |-> res]
       IN  IF res.items = <<>>
           THEN /\ cycle' = [cycle EXCEPT ![c] = IdleCycle]
                /\ step' = [c |-> c, on |-> on,
                            out |-> <<Log(c, "No events found in the next 7 days.")>>]
           ELSE LET r == ProcessFrom(c, res.items, cycle[c].timeMax, now, 1)
                    cy == [cycle[c] EXCEPT !.events = res.items,
                                           !.got = res.nextSyncToken]
                IN  /\ cycle' = [cycle EXCEPT ![c] = Continued(cy, r)]
                    /\ step' = [c |-> c, on |-> on, out |-> r.out]
    /\ UNCHANGED <<now, started, codecVars, lookupVars>>

\* line 362 throws: events.list rejects with status `code`
ListFails(c, code) ==
    /\ cycle[c].pc = "awaitList"
    /\ CatchBlock(c, code, "list", [kind |-> "listError", code |-> code])
    /\ UNCHANGED <<now, started, codecVars, lookupVars>>

\* a bug: a failed forecast request is thrown on to the cycle
WeatherRethrows(c, res) ==
    /\ cycle[c].pc = "awaitWeather"
    /\ LET cy == cycle[c]
           desc == DescriptorFromReply(cy.events[cy.idx].start, res)
           r == AfterWeather(c, cy.events, cy.timeMax, now, cy.idx, desc)
           on == [kind |-> "weather", res |-> res]
       IN  IF res.kind # "ok"
           THEN CatchBlock(c, 0, "weather", on)
           ELSE /\ cycle' = [cycle EXCEPT ![c] = Continued(cy, r)]
                /\ step' = [c |-> c, on |-> on, out |-> r.out]
                /\ lastSyncToken' = lastSyncToken
    /\ UNCHANGED <<now, started, codecVars, lookupVars>>

\* lines 306-405: the forecast request of getWeatherInfo settles with `res`
WeatherReturns(c, res) ==
    /\ cycle[c].pc = "awaitWeather"
    /\ LET cy == cycle[c]
           desc == DescriptorFromReply(cy.events[cy.idx].start, res)
           r == AfterWeather(c, cy.events, cy.timeMax, now, cy.idx, desc)
       IN  /\ cycle' = [cycle EXCEPT ![c] = Continued(cy, r)]
           /\ step' = [c |-> c, on |-> [kind |-> "weather", res |-> res],
                       out |-> r.out]
    /\ UNCHANGED <<lastSyncToken, now, started, codecVars, lookupVars>>

\* lines 397-405: events.patch resolves
PatchReturns(c) ==
    /\ cycle[c].pc = "awaitPatch"
    /\ LET cy == cycle[c]
           r == ProcessFrom(c, cy.events, cy.timeMax, now, cy.idx + 1)
       IN  /\ cycle' = [cycle EXCEPT ![c] = Continued(cy, r)]
           /\ step' = [c |-> c, on |-> [kind |-> "patchOk"], out |-> r.out]
    /\ UNCHANGED <<lastSyncToken, now, started, codecVars, lookupVars>>

\* line 397 throws: events.patch rejects with status `code`
PatchFails(c, code) ==
    /\ cycle[c].pc = "awaitPatch"
    /\ CatchBlock(c, code, "patch", [kind |-> "patchError", code |-> code])
    /\ UNCHANGED <<now, started, codecVars, lookupVars>>

\* line 236: lastSyncToken ? 'active' : 'pending'
LastSync(token) == IF Truthy(token) THEN "active" ELSE "pending"

\* the body of the /health response, lines 234-238
Response(lastSync, timestamp) ==
    [op |-> "response", lastSync |-> lastSync, timestamp |-> timestamp]

\* a bug: the request resets the token
HealthResetting ==
    /\ started
    /\ step' = [c |-> 0, on |-> [kind |-> "health"],
                out |-> <<Response(LastSync(lastSyncToken), now)>>]
    /\ lastSyncToken' = Null
    /\ UNCHANGED <<now, started, cycle, codecVars, lookupVars>>

\* lines 231-238: a GET /health request.  The server answers once the
\* start-up code, which ends with startApplication, has run.
Health ==
    /\ started
    /\ step' = [c |-> 0, on |-> [kind |-> "health"],
                out |-> <<Response(LastSync(lastSyncToken), now)>>]
    /\ UNCHANGED <<lastSyncToken, now, started, cycle, codecVars, lookupVars>>

Next ==
    \/ StartApplication
    \/ SlowTimer
    \/ FastTimer
    \/ Tick
    \/ \E c \in Cycles, res \in ListReplies : ListReturns(c, res)
    \/ \E c \in Cycles, code \in ErrorCodes : ListFails(c, code)
    \/ \E c \in Cycles, res \in WeatherReplies : WeatherReturns(c, res)
    \/ \E c \in Cycles : PatchReturns(c)
    \/ \E c \in Cycles, code \in ErrorCodes : PatchFails(c, code)
    \/ Health

Spec == Init /\ [][Next]_vars

----------------------------------------------------------------------------
(* The title codec run as a specification of its own *)

InitCodec ==
    /\ lastSyncToken = Null
    /\ now = 0
    /\ started = FALSE
    /\ cycle = [c \in Cycles |-> IdleCycle]
    /\ step = [c |-> 0, on |-> [kind |-> "init"], out |-> <<>>]
    /\ InitCodecRun
    /\ lookup = LookupIdle

NextCodec ==
    \/ CleanStep /\ UNCHANGED <<syncVars, lookupVars>>
    \/ StripAgainStep /\ UNCHANGED <<syncVars, lookupVars>>
    \/ ComposeStep /\ UNCHANGED <<syncVars, lookupVars>>
    \/ RestripStep /\ UNCHANGED <<syncVars, lookupVars>>

SpecCodec == InitCodec /\ [][NextCodec]_vars

----------------------------------------------------------------------------
(* The weather lookup run as a specification of its own *)

InitWeather ==
    /\ lastSyncToken = Null
    /\ now \in LookupNows
    /\ started = FALSE
    /\ cycle = [c \in Cycles |-> IdleCycle]
    /\ step = [c |-> 0, on |-> [kind |-> "init"], out |-> <<>>]
    /\ InitLookupRun

NextWeather ==
    \/ LookupStart /\ UNCHANGED syncVars
    \/ \E res \in LookupReplies : LookupSettles(res) /\ UNCHANGED syncVars
    \/ LookupUsed /\ UNCHANGED syncVars
    \/ CleanStep /\ UNCHANGED <<syncVars, lookupVars>>
    \/ ComposeStep /\ UNCHANGED <<syncVars, lookupVars>>

SpecWeather == InitWeather /\ [][NextWeather]_vars

----------------------------------------------------------------------------
(* Properties *)

\* the calls of the last handler run that are of kind op
Out(op) == {step.out[k] : k \in {j \in 1..Len(step.out) : step.out[j].op = op}}

\* the events a caught exception leaves unprocessed: those after the loop's
\* position that the range filter would not skip
LeftBehind(e) ==
    {i \in (e.idx + 1)..Len(e.events) : e.events[i].start <= e.timeMax}

WindowParams == {"timeMin", "timeMax"}

\* C1 (the claim as stated): when the fetch of a cycle fails with status 410
\* the token is cleared, the cycle makes exactly one retry fetch, which
\* carries no token and has the forward window, and a retry that succeeds
\* leaves its next-token in lastSyncToken.  A 410 caught in a cycle whose
\* first fetch failed with 410 starts a second retry.
InvalidationRecovery ==
    /\ \A e \in Out("caught") :
        e.code = 410 =>
            /\ lastSyncToken = Null
            /\ \A l \in Out("list") : l.params.keys = WindowParams
            /\ ~(e.hist # <<>> /\ e.hist[1] = "list")
    /\ \A c \in Cycles :
        (step.c = c /\ step.on.kind = "listOk")
            => lastSyncToken = step.on.res.nextSyncToken

\* C2: right after an events.list call returns, lastSyncToken is the
\* next-token of that reply, whatever the number of events in it.
TokenLifecycle ==
    step.on.kind = "listOk" => lastSyncToken = step.on.res.nextSyncToken

\* C2 witness: a reply with no events has just stored its token
TokenLifecycleWitness ==
    /\ step.on.kind = "listOk"
    /\ step.on.res.items = <<>>
    /\ step.on.res.nextSyncToken = "t1"
    /\ lastSyncToken = "t1"

\* C3: an event whose composed title equals its current title is not
\* patched, and every patch sent carries a title that differs from the
\* current one.
NoRedundantWrites ==
    /\ \A e \in Out("composed") :
        LET composed == Compose(Strip(e.current), e.desc)
        IN  /\ composed = e.current =>
                ~\E p \in Out("patch") : p.c = e.c /\ p.idx = e.idx
            /\ composed # e.current =>
                \E p \in Out("patch") :
                    p.c = e.c /\ p.idx = e.idx /\ p.summary = composed
    /\ \A p \in Out("patch") :
        \E e \in Out("composed") :
            /\ e.c = p.c /\ e.idx = p.idx
            /\ p.summary = Compose(Strip(e.current), e.desc)
            /\ p.summary # e.current
    /\ \A c \in Cycles :
        cycle[c].pc = "awaitPatch" =>
            cycle[c].patch # cycle[c].events[cycle[c].idx].summary

\* C3 witness: an event was looked up, its composed title is its current
\* title, and no patch was sent
NoRedundantWritesWitness ==
    \E e \in Out("composed") :
        /\ Compose(Strip(e.current), e.desc) = e.current
        /\ Out("patch") = {}

\* C5 (the claim as stated): a failed patch of event K leaves no later event
\* of the reply unprocessed.
PartialFailureIsolation ==
    \A e \in Out("caught") : e.cause = "patch" => LeftBehind(e) = {}

\* C6 (the claim as stated): at most one cycle is in flight.
MutualExclusion ==
    Cardinality({c \in Cycles : cycle[c].pc # "idle"}) <= 1

\* C7 (the claim as stated): the retry is one level deep; when an activation
\* that is already a retry fails, no further events.list call is made.
BoundedRetry ==
    \A e \in Out("caught") : e.hist # <<>> => Out("list") = {}

\* C8 (the claim as stated): when events.list fails with a status other than
\* 410, lastSyncToken is what it was when the fetch was made, the cycle has
\* made no weather lookup and no patch, no further fetch is made and the
\* cycle ends.
NonInvalidationFetchError ==
    \A e \in Out("caught") :
        (e.cause = "list" /\ e.code # 410) =>
            /\ lastSyncToken = e.tokenBefore
            /\ "patch" \notin {e.hist[k] : k \in 1..Len(e.hist)}
            /\ Out("list") = {}
            /\ Out("weather") = {}
            /\ Out("patch") = {}
            /\ cycle[e.c].pc = "idle"

\* C9 (the claim as stated): an event that starts after timeMax gets no
\* weather lookup and no patch, and every event that starts at or before
\* timeMax is processed, whatever precedes it in the list.
RangeFiltering ==
    /\ \A c \in Cycles :
        cycle[c].pc \in {"awaitWeather", "awaitPatch"} =>
            cycle[c].events[cycle[c].idx].start <= cycle[c].timeMax
    /\ \A e \in Out("caught") : LeftBehind(e) = {}

\* the token a handler passes to updateCalendarEvents
TokenPassed ==
    IF step.on.kind = "fastTimer" THEN ArgOrDefault(lastSyncToken) ELSE Null

\* C10: every events.list request has either the sync token or the two time
\* bounds: the token alone when the token passed is set, and otherwise
\* timeMin = now and timeMax = now + 7 days and no token.
FetchModeExclusivity ==
    \A l \in Out("list") :
        IF Truthy(TokenPassed)
        THEN /\ l.params.keys = {"syncToken"}
             /\ l.params.syncToken = TokenPassed
        ELSE /\ l.params.keys = WindowParams
             /\ l.params.timeMin = now
             /\ l.params.timeMax = now + WindowDays * HoursPerDay

\* C10 witness: the fast timer has sent a request with a token
FetchModeExclusivityWitness ==
    /\ step.on.kind = "fastTimer"
    /\ \E l \in Out("list") : l.params.keys = {"syncToken"} /\ l.params.syncToken = "t2"

HasParen(s) == \E i \in 1..Len(s) : s[i] \in {"(", ")"}
HasAnyEmoji(s) ==
    \E i \in 1..Len(s) : s[i] \in {"U+2600", "U+FE0F", "U+1F327"}

\* C4: a clean title (the result of the stripping step) without parentheses
\* and without emoji comes back unchanged when the title composed from it and
\* any descriptor is stripped.
RoundTripStability ==
    (codecPc = "restripped" /\ ~HasParen(cleanTitle) /\ ~HasAnyEmoji(cleanTitle))
        => restripped = cleanTitle

\* C4 witness: a decorated title was cleaned to "a", composed and stripped
\* again
RoundTripStabilityWitness ==
    /\ codecPc = "restripped"
    /\ cleanTitle = <<"a">>
    /\ summary # cleanTitle
    /\ weatherDesc = FormatDescriptor(Cloudy, -25)
    /\ restripped = <<"a">>

\* C11: stripping a title that is already stripped changes nothing:
\* strip(strip(s)) = strip(s) for every title s.
IdempotentStrip ==
    codecPc = "cleanedTwice" => strippedTwice = cleanTitle

\* C11 witness: a title with an emoji and a space in front was stripped to
\* "a", and "a" was stripped again
IdempotentStripWitness ==
    /\ codecPc = "cleanedTwice"
    /\ summary = <<"U+1F327", " ", "a">>
    /\ cleanTitle = <<"a">>
    /\ strippedTwice = <<"a">>

CloudyTwenty ==
    <<"(", "c", "l", "o", "u", "d", "y", ",", " ", "2", "0", "U+00B0", "C", ")">>

\* C13 (the claim as stated): the title "Standup (sunny, 18 C) " with the sun
\* sign U+2600 U+FE0F after it is stripped to "Standup", and with the
\* descriptor of cloudy, 20 degrees the title written is
\* "Standup (cloudy, 20 C)".
SpecExampleStandup ==
    ( /\ codecPc = "composed"
      /\ summary = StandupTitle
      /\ weatherDesc = FormatDescriptor(Cloudy, 200) )
        => /\ cleanTitle = Standup
           /\ newTitle = Standup \o <<" ">> \o CloudyTwenty

HasOpenParen(s) == \E i \in 1..Len(s) : s[i] = "("

\* C16 (the claim as stated): for every title t and descriptor d the title
\* written, n = compose(strip(t), d), is a fixpoint: compose(strip(n), d) = n,
\* so a later cycle with the same descriptor sends no patch.
RewriteFixpoint ==
    codecPc = "restripped" =>
        /\ Compose(restripped, weatherDesc) = newTitle
        /\ ~NeedsPatch(Compose(restripped, weatherDesc), newTitle)

\* C16 (amended): the same for every title t whose stripped title has no
\* opening parenthesis left in it.
RewriteFixpointAmended ==
    (codecPc = "restripped" /\ ~HasOpenParen(cleanTitle)) =>
        /\ Compose(restripped, weatherDesc) = newTitle
        /\ ~NeedsPatch(Compose(restripped, weatherDesc), newTitle)

\* C16 witness: the written title of the Standup event, stripped and composed
\* again with the same descriptor, is the written title
RewriteFixpointWitness ==
    /\ codecPc = "restripped"
    /\ summary = StandupTitle
    /\ weatherDesc = FormatDescriptor(Cloudy, 200)
    /\ newTitle # summary
    /\ Compose(restripped, weatherDesc) = newTitle

Parenthesized(d) == Len(d) >= 2 /\ d[1] = "(" /\ d[Len(d)] = ")"

EndsWith(s, t) ==
    /\ Len(s) >= Len(t)
    /\ SubSeq(s, Len(s) - Len(t) + 1, Len(s)) = t

\* C12: whatever the forecast request ends with (a forecast, a body without
\* forecast days, a rejected request) the lookup returns a parenthesized
\* descriptor and nothing is thrown into the cycle: the title of the event is
\* composed, with "(weather unavailable)" at its end when the request failed,
\* and the cycle goes on to patch it or to the next event.
WeatherFailureDegrades ==
    step.on.kind = "weather" =>
        /\ Out("caught") = {}
        /\ \E e \in Out("composed") :
            /\ Parenthesized(e.desc)
            /\ EndsWith(e.summary, e.desc)
            /\ step.on.res.kind # "ok" => e.desc = WeatherUnavailable
            /\ \/ \E p \in Out("patch") : p.idx = e.idx /\ p.summary = e.summary
               \/ e.summary = e.current /\ cycle[step.c].idx # e.idx

\* C12 witness: the forecast request was rejected and the patch that is sent
\* carries the placeholder
WeatherFailureDegradesWitness ==
    /\ step.on.kind = "weather"
    /\ step.on.res.kind = "error"
    /\ \E p \in Out("patch") : EndsWith(p.summary, WeatherUnavailable)
    /\ cycle[step.c].pc = "awaitPatch"

\* C15: a tick of the slow timer leaves lastSyncToken null and its fetch has
\* the time window and no token; a tick of the fast timer sends the token
\* lastSyncToken holds at that moment, and the time window when it holds none.
TimerCadences ==
    /\ step.on.kind = "slowTimer" =>
        /\ lastSyncToken = Null
        /\ Cardinality(Out("list")) = 1
        /\ \A l \in Out("list") : l.params.keys = WindowParams
    /\ step.on.kind = "fastTimer" =>
        /\ Cardinality(Out("list")) = 1
        /\ \A l \in Out("list") :
            IF lastSyncToken \in {"t1", "t2"}
            THEN l.params.keys = {"syncToken"} /\ l.params.syncToken = lastSyncToken
            ELSE l.params.keys = WindowParams

\* C15 witness: the slow timer fired while lastSyncToken held a token and an
\* incremental fetch was in flight
TimerCadencesWitness ==
    /\ step.on.kind = "slowTimer"
    /\ lastSyncToken = Null
    /\ \E c \in Cycles : cycle[c].overtaken /\ cycle[c].tokenBefore = "t1"

\* C17 (the claim as stated): when events.patch fails, with 410 or any other
\* status, the token is not cleared and the cycle makes no further
\* events.list call.
RecoveryOnlyOnFetch ==
    \A e \in Out("caught") :
        e.cause = "patch" =>
            /\ Out("list") = {}
            /\ Out("log") = {Log(e.c, "Error updating calendar events:")}

\* C18 (the claim as stated): an incremental cycle of the fast timer is in
\* flight when the slow timer clears the token and starts a cycle.  When the
\* fetch of the earlier cycle resolves and no cycle is left in flight,
\* lastSyncToken is still the token the later cycle left, not the next-token
\* of the earlier fetch.
LastStartedWins ==
    [][ \A c \in Cycles :
          ( /\ cycle[c].pc = "awaitList"
            /\ cycle[c].overtaken
            /\ step'.c = c
            /\ step'.on.kind = "listOk"
            /\ \A d \in Cycles : cycle'[d].pc = "idle" )
              => lastSyncToken' = lastSyncToken ]_vars

\* C19 (the claim as stated): when a cycle whose fetch succeeded is ended by
\* an error in its loop with a status other than 410, lastSyncToken is the
\* next-token of that fetch.
TokenNotRolledBack ==
    \A e \in Out("caught") :
        (e.cause = "patch" /\ e.code # 410) => lastSyncToken = e.got

Placeholders == {ForecastUnavailable, WeatherUnavailable}

\* the least element of a non-empty set of numbers
Least(S) == CHOOSE x \in S : \A y \in S : x <= y

\* C14 (the claim as stated): the lookup for a time 20 days ahead returns an
\* unavailable placeholder, and the title composed with it ends in
\* "(weather unavailable)".
SpecExampleFarAhead ==
    ( /\ lookup.eventDate - now = 20 * HoursPerDay
      /\ codecPc = "composed" )
        => /\ lookup.result \in Placeholders
           /\ weatherDesc = lookup.result
           /\ EndsWith(newTitle, WeatherUnavailable)

\* C14 (amended): the lookup for a time 20 days ahead returns the placeholder
\* "(forecast unavailable)", whatever the weather API would answer, and the
\* title composed with it ends in "(forecast unavailable)".
SpecExampleFarAheadAmended ==
    /\ ( /\ lookup.eventDate - now = 20 * HoursPerDay
         /\ lookup.pc \in {"returned", "used"} )
           => lookup.result = ForecastUnavailable
    /\ ( /\ lookup.eventDate - now = 20 * HoursPerDay
         /\ codecPc = "composed" )
           => /\ weatherDesc = lookup.result
              /\ EndsWith(newTitle, ForecastUnavailable)

\* C14 witness: the title of the Standup event composed for a time 20 days
\* after hour 1
SpecExampleFarAheadWitness ==
    /\ now = 1
    /\ lookup.eventDate = 20 * HoursPerDay + 1
    /\ codecPc = "composed"
    /\ summary = StandupTitle
    /\ newTitle = Compose(Strip(StandupTitle), ForecastUnavailable)

ReturnLogs ==
    { "No events found in the next 7 days.", "Update completed",
      "Error updating calendar events:" }

\* C21: every error thrown in a cycle, by the fetch or by a patch, is caught
\* and logged in the handler that meets it; an activation that ends returns,
\* it does not reject; and after a cycle has failed both timers are still
\* installed and can start the next cycle.
FailuresNeverEscape ==
    /\ \A e \in Out("caught") :
        /\ \E l \in Out("log") : l.c = e.c
        /\ cycle[e.c].pc \in {"idle", "awaitList"}
    /\ \A c \in Cycles :
        ( /\ step.c = c
          /\ step.on.kind \in {"listOk", "listError", "weather", "patchOk", "patchError"}
          /\ cycle[c].pc = "idle" )
            => /\ step.out # <<>>
               /\ step.out[Len(step.out)].op = "log"
               /\ step.out[Len(step.out)].line \in ReturnLogs
    /\ ( /\ Out("caught") # {}
         /\ \A c \in Cycles : cycle[c].pc = "idle" )
            => /\ started
               /\ ENABLED FastTimer
               /\ now >= UpdateIntervalHours => ENABLED SlowTimer

\* C21 witness: a patch was rejected with status 500 in the second hour, the
\* error is logged, the cycle has ended and both timers can fire
FailuresNeverEscapeWitness ==
    /\ now = 1
    /\ step.on = [kind |-> "patchError", code |-> 500]
    /\ \E l \in Out("log") : l.line = "Error updating calendar events:"
    /\ \A c \in Cycles : cycle[c].pc = "idle"
    /\ ENABLED FastTimer
    /\ ENABLED SlowTimer

\* C22 (the claim as stated): a /health request changes neither lastSyncToken
\* nor a cycle in flight, reports 'active' exactly when lastSyncToken holds a
\* token, and reports the time of the last sync cycle: a request that is the
\* first thing to happen in an hour reports an earlier hour.
HealthSnapshot ==
    [][ step'.on.kind = "health" =>
          /\ lastSyncToken' = lastSyncToken
          /\ cycle' = cycle
          /\ \A r \in {step'.out[k] : k \in 1..Len(step'.out)} :
              /\ r.lastSync = "active" <=> lastSyncToken \in {"t1", "t2"}
              /\ step.on.kind = "tick" => r.timestamp < now' ]_vars

\* C22 (amended): the same, but the timestamp reported is the time of the
\* request.
HealthSnapshotAmended ==
    [][ step'.on.kind = "health" =>
          /\ lastSyncToken' = lastSyncToken
          /\ cycle' = cycle
          /\ Len(step'.out) = 1
          /\ \A r \in {step'.out[k] : k \in 1..Len(step'.out)} :
              /\ r.lastSync = "active" <=> lastSyncToken \in {"t1", "t2"}
              /\ r.lastSync \in {"active", "pending"}
              /\ r.timestamp = now' ]_vars

\* C22 witness: a request in the second hour, while a cycle waits for its
\* patch and lastSyncToken holds a token
HealthSnapshotWitness ==
    /\ step.on.kind = "health"
    /\ step.out = <<Response("active", 1)>>
    /\ lastSyncToken = "t2"
    /\ \E c \in Cycles : cycle[c].pc = "awaitPatch"

====
